---- MODULE Spec2Model ----
(***************************************************************************)
(* Collection-and-verification pipeline of the Indian news auto-collector  *)
(* (news_collector.py, database.py, app.py).                               *)
(*                                                                         *)
(* Units.  Confidences are carried in hundredths (72.00 is 7200), trust    *)
(* scores in hundredths (0.9 is 90), the combined score in thousandths     *)
(* (83.0 is 83000).  Strings that the code slices or filters character by  *)
(* character (titles, publishedAt) are sequences of one-character strings. *)
(* An md5 digest is represented by the text it digests (md5 is taken to be *)
(* collision free).  A verdict is named by its words; the symbol the code  *)
(* puts in front of them is left out.                                      *)
(***************************************************************************)
EXTENDS Integers, Sequences, FiniteSets, TLC

VARIABLES keys, fixture, store, nextId, stats, run, runs, vin, vout

vars == <<keys, fixture, store, nextId, stats, run, runs, vin, vout>>

(***************************************************************************)
(* Bounds of the model.                                                    *)
(***************************************************************************)
\* longest raw merged list of one run when runs are serialized
MaxBatch == 2
\* longest raw merged list of one run when runs may overlap
MaxRaceBatch == 1
\* calls of collect_daily_news in one behaviour
MaxRuns == 2
\* longest raw merged list of the fixed feed
MaxFixtureBatch == 2
\* largest number of days a prune is called with
MaxDays == 1
\* classifier confidences are k.00 .. k.0MaxCents for every whole k, and
\* the values next to a threshold
MaxCents == 9
MaxKeyRuns == 1
MaxPayload == 2
MaxSchedRuns == 3
MaxTitle == 2

(***************************************************************************)
(* Text helpers.                                                           *)
(***************************************************************************)
UpperChars == {"X", "Y", "Z", "R"}
LowerChars == {"x", "y", "z", "r", "e", "m", "o", "v", "d"}
DigitChars == {"0", "1", "2", "3", "4", "5", "6", "7", "8", "9"}

\* str.isalnum() on one character
IsAlnum(c) == c \in UpperChars \cup LowerChars \cup DigitChars

\* str.isspace() on one character
IsSpace(c) == c = " "

\* str.lower() on one character
Lower(c) ==
    CASE c = "X" -> "x"
      [] c = "Y" -> "y"
      [] c = "Z" -> "z"
      [] c = "R" -> "r"
      [] OTHER -> c

\* str.strip(): leading and trailing whitespace removed
RECURSIVE StripLeft(_)
StripLeft(s) ==
    IF s # <<>> /\ IsSpace(Head(s)) THEN StripLeft(Tail(s)) ELSE s

RECURSIVE StripRight(_)
StripRight(s) ==
    IF s # <<>> /\ IsSpace(s[Len(s)])
    THEN StripRight(SubSeq(s, 1, Len(s) - 1))
    ELSE s

Strip(s) == StripRight(StripLeft(s))

\* ''.join(c.lower() for c in title if c.isalnum() or c.isspace())
RECURSIVE LowerKept(_)
LowerKept(s) ==
    IF s = <<>> THEN <<>>
    ELSE IF IsAlnum(Head(s)) \/ IsSpace(Head(s))
         THEN <<Lower(Head(s))>> \o LowerKept(Tail(s))
         ELSE LowerKept(Tail(s))

\* published_at[:10] if published_at else ""
DatePart(pub) ==
    IF pub = <<>> THEN <<>>
    ELSE SubSeq(pub, 1, IF Len(pub) < 10 THEN Len(pub) ELSE 10)

\* a mirror that forgets the date: every copy of a title collides
ContentHashNoDate(title, pub) == Strip(LowerKept(title)) \o <<"|">>

\* _content_hash: md5 of "<clean>|<date>"
ContentHash(title, pub) ==
    Strip(LowerKept(title)) \o <<"|">> \o DatePart(pub)

(***************************************************************************)
(* Credibility table and Verifier.                                         *)
(***************************************************************************)
\* TRUSTED_SOURCES, in hundredths
TrustedSources ==
    ("The Hindu" :> 90) @@ ("Business Standard" :> 90) @@ ("PTI" :> 88) @@
    ("The Indian Express" :> 88) @@ ("Economic Times" :> 85) @@
    ("The Times of India" :> 85) @@ ("Mint" :> 85) @@ ("ANI" :> 82) @@
    ("NDTV" :> 82) @@ ("Hindustan Times" :> 82) @@ ("India Today" :> 80) @@
    ("News18" :> 78) @@ ("CNBC-TV18" :> 80) @@ ("The Print" :> 78) @@
    ("Scroll.in" :> 78) @@ ("The Wire" :> 75) @@ ("Deccan Herald" :> 78) @@
    ("Tribune India" :> 75) @@ ("Outlook India" :> 75)

\* QUESTIONABLE_SOURCES, in hundredths
QuestionableSources ==
    ("Unknown" :> 30) @@ ("Social Media" :> 20) @@ ("[Removed]" :> 0)

\* a lookup that forgets the questionable table
SourceTrustNoQuestionable(name) ==
    IF name \in DOMAIN TrustedSources THEN TrustedSources[name] ELSE 50

\* _source_trust
SourceTrust(name) ==
    IF name \in DOMAIN TrustedSources THEN TrustedSources[name]
    ELSE IF name \in DOMAIN QuestionableSources THEN QuestionableSources[name]
    ELSE 50

\* weights swapped: 0.3 on the classifier, 0.7 on the trust
CombinedSwapped(mlConf, trust) == mlConf * 3 + trust * 700

\* combined = (ml_conf * 0.7) + (trust * 100 * 0.3), in thousandths
Combined(mlConf, trust) == mlConf * 7 + trust * 300

\* round(combined, 2), in hundredths.  Python rounds the binary double: a
\* value that is not a decimal tie goes to the nearest hundredth, and at a
\* decimal tie (third decimal 5) the double lies on either side, so tieUp
\* says which way this one goes.
Round2(c, tieUp) ==
    LET q == c \div 10
        r == c % 10
    IN  IF r > 5 \/ (r = 5 /\ tieUp) THEN q + 1 ELSE q

\* the classification stage with the trusted-source test taken before the
\* label test
ClassifyTrustFirst(label, mlConf, trust, tieUp) ==
    LET combined == Combined(mlConf, trust)
        conf == Round2(combined, tieUp)
    IN  IF combined < 60000
        THEN [result |-> "NEEDS FACT CHECKING", confidence |-> conf]
        ELSE IF trust > 80 /\ combined < 85000
        THEN [result |-> "NEEDS FACT CHECKING", confidence |-> conf]
        ELSE IF label = 1 /\ trust <= 80
        THEN [result |-> "REAL NEWS", confidence |-> conf]
        ELSE [result |-> "FAKE NEWS", confidence |-> conf]

\* verify_article, lines 307-320: the trust-weighted classification stage
Classify(label, mlConf, trust, tieUp) ==
    LET combined == Combined(mlConf, trust)
        conf == Round2(combined, tieUp)
    IN  IF combined < 60000
        THEN [result |-> "NEEDS FACT CHECKING", confidence |-> conf]
        ELSE IF label = 1
        THEN [result |-> "REAL NEWS", confidence |-> conf]
        ELSE IF trust > 80 /\ combined < 85000
        THEN [result |-> "NEEDS FACT CHECKING", confidence |-> conf]
        ELSE [result |-> "FAKE NEWS", confidence |-> conf]

\* title == "[Removed]"
RemovedTitle == <<"[", "R", "e", "m", "o", "v", "e", "d", "]">>

\* a Verifier that answers for itself when the classifier throws
VerifyArticleNoRaise(a, tieUp) ==
    [raised |-> FALSE, result |-> "NEEDS FACT CHECKING", confidence |-> 0]

\* a Verifier that calls the classifier before the knowledge-base check
VerifyArticleClassifierFirst(a, tieUp) ==
    IF a.title = <<>> \/ a.title = RemovedTitle
    THEN [raised |-> FALSE, result |-> "NEEDS FACT CHECKING", confidence |-> 0]
    ELSE IF a.ml.throws
    THEN [raised |-> TRUE, result |-> "", confidence |-> 0]
    ELSE IF a.kb \/ a.claim = "HISTORICAL"
    THEN [raised |-> FALSE, result |-> "VERIFIED FACT", confidence |-> 9500]
    ELSE LET v == Classify(a.ml.label, a.ml.conf, SourceTrust(a.source), tieUp)
         IN  [raised |-> FALSE, result |-> v.result, confidence |-> v.confidence]

\* verify_article.  kb is wikipedia_verify(text), claim is
\* detect_claim_type(text), ml is what the classifier does on the cleaned
\* text: it throws, or yields (label, confidence).
VerifyArticle(a, tieUp) ==
    IF a.title = <<>> \/ a.title = RemovedTitle
    THEN [raised |-> FALSE, result |-> "NEEDS FACT CHECKING", confidence |-> 0]
    ELSE IF a.kb
    THEN [raised |-> FALSE, result |-> "VERIFIED FACT", confidence |-> 9500]
    ELSE IF a.claim = "HISTORICAL"
    THEN [raised |-> FALSE, result |-> "VERIFIED FACT", confidence |-> 9500]
    ELSE IF a.ml.throws
    THEN [raised |-> TRUE, result |-> "", confidence |-> 0]
    ELSE LET v == Classify(a.ml.label, a.ml.conf, SourceTrust(a.source), tieUp)
         IN  [raised |-> FALSE, result |-> v.result, confidence |-> v.confidence]

\* a test for the whole result instead of the substring
IsFakeExact(result) == result = "FAKE"

\* is_fake = "FAKE" in verification["result"]: of the four results only
\* FAKE NEWS holds the substring
IsFake(result) == result = "FAKE NEWS"

(***************************************************************************)
(* Persisted store (database.py).  A row of auto_collected_news is a       *)
(* record; url_hash is md5(url) and is represented by url itself.          *)
(***************************************************************************)
\* a lookup with a memory of its own: it also finds every url once a row has
\* ever been inserted, whether the row is still in the table or not
IsUrlExistsOrEverStored(st, url) == (\E r \in st : r.url = url) \/ nextId > 1

\* a url lookup that never finds anything
IsUrlExistsNever(st, url) == FALSE

\* is_url_exists: WHERE url_hash = ? OR url = ?
IsUrlExists(st, url) == \E r \in st : r.url = url

\* a fingerprint lookup that never finds anything
IsContentHashExistsNever(st, h) == FALSE

\* is_content_hash_exists
IsContentHashExists(st, h) ==
    IF h = <<>> THEN FALSE ELSE \E r \in st : r.content_hash = h

\* a table created without the UNIQUE constraint on url
UrlConflictNever(st, url) == FALSE

\* url TEXT UNIQUE NOT NULL: the INSERT raises sqlite3.IntegrityError
UrlConflict(st, url) == \E r \in st : r.url = url

\* an INSERT that is never committed
AddAutoCollectedNewsNoCommit(st, row) == st

\* an INSERT that goes through whatever rows there are
AddAutoCollectedNewsAlways(st, row) == st \cup {row}

\* an INSERT into a table with a UNIQUE constraint on content_hash too
AddAutoCollectedNewsHashUnique(st, row) ==
    IF UrlConflict(st, row.url) \/ (\E r \in st : r.content_hash = row.content_hash)
    THEN st ELSE st \cup {row}

\* add_auto_collected_news: the table after the call
AddAutoCollectedNews(st, row) ==
    IF UrlConflict(st, row.url) THEN st ELSE st \cup {row}

\* collected_at is kept as the age of the row, now - collected_at, in days;
\* ages above every cutoff a prune is called with are all alike, so they stop
\* at OldAge
OldAge == MaxDays + 1

\* dt days pass
Aged(st, dt) ==
    {[r EXCEPT !.age = IF r.age + dt > OldAge THEN OldAge ELSE r.age + dt] : r \in st}

\* a cutoff that takes the rows of exactly N days too
DeleteOldNewsInclusive(st, days) == {r \in st : ~(r.age >= days)}

\* delete_old_news: WHERE collected_at < datetime('now', '-N days')
DeleteOldNews(st, days) == {r \in st : ~(r.age > days)}

\* collection_stats is only ever appended to and the collector never reads
\* it: the state keeps the number of rows and the row appended last
NoStats == [count |-> 0, last |-> [fetched |-> 0, stored |-> 0, duplicates |-> 0, fake |-> 0]]

\* a row with stored and fake in each other's column
AddCollectionStatsSwapped(st, fetched, stored, duplicates, fake) ==
    [count |-> st.count + 1,
     last |-> [fetched |-> fetched, stored |-> fake,
               duplicates |-> duplicates, fake |-> stored]]

\* add_collection_stats
AddCollectionStats(st, fetched, stored, duplicates, fake) ==
    [count |-> st.count + 1,
     last |-> [fetched |-> fetched, stored |-> stored,
               duplicates |-> duplicates, fake |-> fake]]

(***************************************************************************)
(* Articles the adapters can return.                                       *)
(***************************************************************************)
TitleX == <<"X">>
TitleXBang == <<"x", "!">>
TitleY == <<"Y">>
TitleZ == <<"Z">>
TitleXQuery == <<"X", "?">>
Pub1 == <<"2", "0", "2", "4", "-", "0", "1", "-", "0", "1", "T", "0", "0", ":", "0", "0", ":", "0", "0">>
Pub1Late == <<"2", "0", "2", "4", "-", "0", "1", "-", "0", "1", "T", "0", "9", ":", "3", "0", ":", "0", "0">>
Pub2 == <<"2", "0", "2", "4", "-", "0", "1", "-", "0", "2", "T", "0", "0", ":", "0", "0", ":", "0", "0">>

Ml(label, conf) == [throws |-> FALSE, label |-> label, conf |-> conf]
MlThrows == [throws |-> TRUE, label |-> 0, conf |-> 0]

Art(title, url, pub, source, kb, claim, ml) ==
    [title |-> title, url |-> url, publishedAt |-> pub, source |-> source,
     kb |-> kb, claim |-> claim, ml |-> ml]

\* publisher Unknown, classifier (fake, 90)
ArtA == Art(TitleX, "u1", Pub1, "Unknown", FALSE, "GENERAL", Ml(0, 9000))
\* a syndicated copy of ArtA: other url, same normalized title, same day
ArtMirror == Art(TitleXBang, "u2", Pub1Late, "The Hindu", FALSE, "GENERAL", Ml(0, 8000))
\* the url of ArtA under another title on another day
ArtSameUrl == Art(TitleY, "u1", Pub2, "News18", FALSE, "GENERAL", Ml(1, 9000))
\* a third copy of ArtA, on which the classifier throws
ArtThrows == Art(TitleXQuery, "u3", Pub1, "Blog", FALSE, "GENERAL", MlThrows)
\* withdrawn by the provider
ArtRemoved == Art(RemovedTitle, "u3", Pub2, "[Removed]", FALSE, "GENERAL", Ml(0, 9000))
\* no url
ArtNoUrl == Art(TitleY, "", Pub2, "Unknown", FALSE, "GENERAL", Ml(1, 9000))
\* no title (NewsAPI passes these on, the other adapters filter them)
ArtNoTitle == Art(<<>>, "u2", Pub2, "Unknown", FALSE, "GENERAL", Ml(1, 9000))
\* matched by the knowledge base
ArtKb == Art(TitleZ, "u2", Pub1, "Unknown", TRUE, "GENERAL", Ml(0, 9000))
\* the url of ArtThrows under another title on another day
ArtRepost == Art(TitleZ, "u3", Pub2, "News18", FALSE, "GENERAL", Ml(1, 9000))

\* the state names an article; the record is what the adapter returned
ArticleNamed ==
    ("A" :> ArtA) @@ ("Mirror" :> ArtMirror) @@ ("SameUrl" :> ArtSameUrl) @@
    ("Throws" :> ArtThrows) @@ ("Removed" :> ArtRemoved) @@ ("NoUrl" :> ArtNoUrl) @@
    ("NoTitle" :> ArtNoTitle) @@ ("Kb" :> ArtKb) @@ ("Repost" :> ArtRepost)

Articles == DOMAIN ArticleNamed

RaceArticles == {"A", "Mirror"}

Recs(names) == [i \in 1..Len(names) |-> ArticleNamed[names[i]]]

(***************************************************************************)
(* Source adapters, as far as the collector sees them: what each returns.  *)
(***************************************************************************)
SeqsUpTo(U, n) == UNION {[1..k -> U] : k \in 0..n}

KeyConfigs == [gnews : BOOLEAN, newsdata : BOOLEAN, newsapi : BOOLEAN]

\* What the three adapters return in one run: a raw list b cut in three.
\* An adapter without a key returns [] (lines 86, 140, 192); fetch_gnews and
\* fetch_newsdata keep only articles with a title (lines 104, 157).
FeedsOf(U, n, ks) ==
    {[gnews |-> SubSeq(c[1], 1, c[2]),
      newsdata |-> SubSeq(c[1], c[2] + 1, c[3]),
      newsapi |-> SubSeq(c[1], c[3] + 1, Len(c[1]))] :
        c \in {d \in SeqsUpTo(U, n) \X (0..n) \X (0..n) :
                  /\ d[2] <= d[3]
                  /\ d[3] <= Len(d[1])
                  /\ (~ks.gnews => d[2] = 0)
                  /\ (~ks.newsdata => d[2] = d[3])
                  /\ (~ks.newsapi => d[3] = Len(d[1]))
                  /\ \A k \in 1..d[3] : ArticleNamed[d[1][k]].title # <<>>}}

\* collect_daily_news that gives up at the first adapter without a key
AllArticlesUntilMissing(ks, f) ==
    IF ~ks.gnews THEN <<>>
    ELSE f.gnews \o
         (IF ~ks.newsdata THEN <<>>
          ELSE f.newsdata \o (IF ks.newsapi THEN f.newsapi ELSE <<>>))

\* collect_daily_news, lines 415-451: all_articles
AllArticles(ks, f) ==
    (IF ks.gnews THEN f.gnews ELSE <<>>) \o
    (IF ks.newsdata THEN f.newsdata ELSE <<>>) \o
    (IF ks.newsapi THEN f.newsapi ELSE <<>>)

(***************************************************************************)
(* process_and_store: the batch-local pass.                                *)
(***************************************************************************)
\* a pass in which the last occurrence of a url wins
KeptFromLast(articles, i, seen) ==
    SelectSeq([k \in 1..Len(articles) |-> k],
              LAMBDA k : /\ k >= i
                         /\ articles[k].url # ""
                         /\ \A j \in (k + 1)..Len(articles) :
                               articles[j].url # articles[k].url)

\* lines 347-352, as positions of the raw list: seen is the set of urls kept
RECURSIVE KeptFrom(_, _, _)
KeptFrom(articles, i, seen) ==
    IF i > Len(articles) THEN <<>>
    ELSE LET u == articles[i].url
         IN  IF u # "" /\ u \notin seen
             THEN <<i>> \o KeptFrom(articles, i + 1, seen \cup {u})
             ELSE KeptFrom(articles, i + 1, seen)

KeptIndices(articles) == KeptFrom(articles, 1, {})

\* unique
UniqueByUrl(articles) ==
    [k \in 1..Len(KeptIndices(articles)) |-> articles[KeptIndices(articles)[k]]]

\* a test that lets the withdrawn articles through
MalformedNoRemoved(a) == a.title = <<>> \/ a.url = ""

\* line 364
Malformed(a) == a.title = <<>> \/ a.title = RemovedTitle \/ a.url = ""

(***************************************************************************)
(* State.                                                                  *)
(***************************************************************************)
\* the scheduler thread and one request thread of the web server
Runners == {"scheduler", "web"}

\* a thread that is not in a collection: pc is where the thread is, batch
\* the raw merged list (all_articles), idx the position in unique, stored,
\* fake and dupes the counters of process_and_store, fate what became of
\* each article of the raw list
IdleRun ==
    [pc |-> "idle", batch |-> <<>>,
     idx |-> 0, stored |-> 0, fake |-> 0, dupes |-> 0, fate |-> <<>>]

NoInput == [label |-> 0, conf |-> 0, lo |-> "", hi |-> ""]
NoOutput == [done |-> FALSE, lo |-> [result |-> "", confidence |-> 0],
             hi |-> [result |-> "", confidence |-> 0]]

\* live: the adapters answer each call with whatever the providers have;
\* otherwise they answer every call with the list all
NoFixture == [live |-> TRUE, all |-> <<>>]

InitWith(ks, fx, input) ==
    /\ keys = ks
    /\ fixture = fx
    /\ store = {}
    /\ nextId = 1
    /\ stats = NoStats
    /\ run = [p \in Runners |-> IdleRun]
    /\ runs = 0
    /\ vin = input
    /\ vout = NoOutput

\* every adapter has a key, or GNews alone has one (NEWS_API_KEY unset)
SomeKeyConfigs ==
    {[gnews |-> TRUE, newsdata |-> TRUE, newsapi |-> TRUE],
     [gnews |-> TRUE, newsdata |-> FALSE, newsapi |-> FALSE]}

\* app.py served by a runner that imports it: the collector thread is
\* started at import (lines 35-37) and every route is registered
Init == \E ks \in SomeKeyConfigs : InitWith(ks, NoFixture, NoInput)

\* the thread is inside collect_daily_news
Running(p) == run[p].pc \in {"loop", "hash", "insert"}

\* no thread is in a collection or in the handler that called it
AllIdle == \A p \in Runners : run[p].pc = "idle"

\* position in the raw list of the article the loop is at
RawIdx(r) == KeptIndices(Recs(r.batch))[r.idx]

\* unique, the list the loop of process_and_store walks
Unique(r) == UniqueByUrl(Recs(r.batch))

Current(r) == Unique(r)[r.idx]

(***************************************************************************)
(* Actions.                                                                *)
(***************************************************************************)
Others == <<keys, fixture, vin, vout>>

\* collect_daily_news that raises when no adapter returned an article
CollectedRaisesOnEmpty(all) ==
    IF all = <<>>
    THEN [IdleRun EXCEPT !.pc = "failed"]
    ELSE [IdleRun EXCEPT !.pc = "loop", !.batch = all, !.idx = 1,
                         !.fate = [i \in 1..Len(all) |->
                             IF \E k \in 1..Len(KeptIndices(Recs(all))) :
                                    KeptIndices(Recs(all))[k] = i
                             THEN "pending" ELSE "dropped"]]

\* collect_daily_news up to the call of process_and_store (lines 410-464),
\* and the batch-local pass of process_and_store (lines 344-354), for the
\* raw list all.  With an empty list collect_daily_news returns (0, 0)
\* before process_and_store is called.
Collected(all) ==
    IF all = <<>>
    THEN [IdleRun EXCEPT !.pc = "done"]
    ELSE [IdleRun EXCEPT !.pc = "loop", !.batch = all, !.idx = 1,
                         !.fate = [i \in 1..Len(all) |->
                             IF \E k \in 1..Len(KeptIndices(Recs(all))) :
                                    KeptIndices(Recs(all))[k] = i
                             THEN "pending" ELSE "dropped"]]

\* all_articles of this run: what the adapters answer, merged
Merged(lists) ==
    IF fixture.live THEN lists[keys] ELSE {fixture.all}

\* schedule_news_collection: job() on the scheduler thread, at startup and
\* whenever run_pending finds a job due
StartJob(lists) ==
    /\ run["scheduler"].pc = "idle"
    /\ runs < MaxRuns
    /\ \E all \in Merged(lists) :
          run' = [run EXCEPT !["scheduler"] = Collected(all)]
    /\ runs' = runs + 1
    /\ UNCHANGED <<store, nextId, stats, Others>>

\* trigger_collection, which answers 400 without NEWS_API_KEY
TriggerCollection(lists) ==
    /\ run["web"].pc = "idle"
    /\ IF ~keys.newsapi
       THEN /\ run' = [run EXCEPT !["web"] = [IdleRun EXCEPT !.pc = "refused"]]
            /\ runs' = runs
       ELSE /\ runs < MaxRuns
            /\ \E all \in Merged(lists) :
                  run' = [run EXCEPT !["web"] = Collected(all)]
            /\ runs' = runs + 1
    /\ UNCHANGED <<store, nextId, stats, Others>>

\* force_refresh, which runs the collector whatever keys are set
ForceRefresh(lists) ==
    /\ run["web"].pc = "idle"
    /\ runs < MaxRuns
    /\ \E all \in Merged(lists) :
          run' = [run EXCEPT !["web"] = Collected(all)]
    /\ runs' = runs + 1
    /\ UNCHANGED <<store, nextId, stats, Others>>

\* lines 358-369: the malformed test and is_url_exists
CheckUrl(p) ==
    LET r == run[p] IN
    /\ r.pc = "loop"
    /\ r.idx <= Len(Unique(r))
    /\ run' = [run EXCEPT ![p] =
          IF Malformed(Current(r))
          THEN [r EXCEPT !.idx = r.idx + 1, !.fate[RawIdx(r)] = "malformed"]
          ELSE IF IsUrlExists(store, Current(r).url)
          THEN [r EXCEPT !.idx = r.idx + 1, !.dupes = r.dupes + 1,
                         !.fate[RawIdx(r)] = "dup_precheck"]
          ELSE [r EXCEPT !.pc = "hash"]]
    /\ UNCHANGED <<store, nextId, stats, runs, Others>>

\* lines 264-265 and 367-369: is_content_hash_exists
CheckHash(p) ==
    LET r == run[p] IN
    /\ r.pc = "hash"
    /\ run' = [run EXCEPT ![p] =
          IF IsContentHashExists(store, ContentHash(Current(r).title,
                                                    Current(r).publishedAt))
          THEN [r EXCEPT !.pc = "loop", !.idx = r.idx + 1, !.dupes = r.dupes + 1,
                         !.fate[RawIdx(r)] = "dup_precheck"]
          ELSE [r EXCEPT !.pc = "insert"]]
    /\ UNCHANGED <<store, nextId, stats, runs, Others>>

\* the row add_auto_collected_news inserts
NewRow(a, v, id) ==
    [id |-> id, headline |-> a.title, source |-> a.source, url |-> a.url,
     published_at |-> a.publishedAt, result |-> v.result,
     confidence |-> v.confidence, age |-> 0,
     content_hash |-> ContentHash(a.title, a.publishedAt)]

\* lines 371-395: verify_article, add_auto_collected_news, the counters; an
\* exception of the Verifier is caught at line 394
VerifyAndInsert(p) ==
    LET r == run[p] IN
    /\ r.pc = "insert"
    /\ \E tieUp \in BOOLEAN :
          LET v == VerifyArticle(Current(r), tieUp)
              row == NewRow(Current(r), v, nextId)
              ok == ~UrlConflict(store, Current(r).url)
          IN  IF v.raised
              THEN /\ run' = [run EXCEPT ![p] =
                         [r EXCEPT !.pc = "loop", !.idx = r.idx + 1,
                                   !.fate[RawIdx(r)] = "raised"]]
                   /\ UNCHANGED <<store, nextId>>
              ELSE /\ store' = AddAutoCollectedNews(store, row)
                   /\ nextId' = IF ok THEN nextId + 1 ELSE nextId
                   /\ run' = [run EXCEPT ![p] =
                         IF ok
                         THEN [r EXCEPT !.pc = "loop", !.idx = r.idx + 1,
                                        !.stored = r.stored + 1,
                                        !.fake = r.fake + (IF IsFake(v.result) THEN 1 ELSE 0),
                                        !.fate[RawIdx(r)] = "stored"]
                         ELSE [r EXCEPT !.pc = "loop", !.idx = r.idx + 1,
                                        !.dupes = r.dupes + 1,
                                        !.fate[RawIdx(r)] = "dup_insert"]]
    /\ UNCHANGED <<stats, runs, Others>>

\* lines 397-404 and 464-466: add_collection_stats and the return of
\* (stored, fake); the locals stay until the caller is through
AddStats(p) ==
    LET r == run[p] IN
    /\ r.pc = "loop"
    /\ r.idx > Len(Unique(r))
    /\ stats' = AddCollectionStats(stats, Len(r.batch), r.stored, r.dupes, r.fake)
    /\ run' = [run EXCEPT ![p] = [r EXCEPT !.pc = "done"]]
    /\ UNCHANGED <<store, nextId, runs, Others>>

\* job() logs and returns; the handler sends its response
Finish(p) ==
    /\ run[p].pc \in {"done", "refused"}
    /\ run' = [run EXCEPT ![p] = IdleRun]
    /\ UNCHANGED <<store, nextId, stats, runs, Others>>

\* process_and_store run from start to end with nothing else touching the
\* store: what becomes of each article of the raw list b, from position k
\* of unique on, with st the table and fate the outcomes so far
RECURSIVE ProcessFrom(_, _, _, _)
ProcessFrom(st, b, k, fate) ==
    LET kept == KeptIndices(Recs(b)) IN
    IF k > Len(kept) THEN fate
    ELSE LET i == kept[k]
             a == ArticleNamed[b[i]]
             v == VerifyArticle(a, TRUE)
         IN  IF Malformed(a)
             THEN ProcessFrom(st, b, k + 1, [fate EXCEPT ![i] = "malformed"])
             ELSE IF IsUrlExists(st, a.url)
                     \/ IsContentHashExists(st, ContentHash(a.title, a.publishedAt))
             THEN ProcessFrom(st, b, k + 1, [fate EXCEPT ![i] = "dup_precheck"])
             ELSE IF v.raised
             THEN ProcessFrom(st, b, k + 1, [fate EXCEPT ![i] = "raised"])
             ELSE IF UrlConflict(st, a.url)
             THEN ProcessFrom(st, b, k + 1, [fate EXCEPT ![i] = "dup_insert"])
             ELSE ProcessFrom(AddAutoCollectedNews(st, NewRow(a, v, Cardinality(st) + 1)),
                              b, k + 1, [fate EXCEPT ![i] = "stored"])

ProcessAndStore(st, b) == ProcessFrom(st, b, 1, Collected(b).fate)

PruneDays == 0..MaxDays

\* clear_old_news
Prune(days) ==
    /\ store' = DeleteOldNews(store, days)
    /\ UNCHANGED <<keys, fixture, nextId, stats, run, runs, vin, vout>>

\* a day passes
Tick ==
    /\ store' = Aged(store, 1)
    /\ store' # store
    /\ UNCHANGED <<keys, fixture, nextId, stats, run, runs, vin, vout>>

\* the raw merged lists a run can get, by key configuration
ListsOf(U, n) ==
    [ks \in KeyConfigs |-> {AllArticles(ks, f) : f \in FeedsOf(U, n, ks)}]

RaceLists == ListsOf(RaceArticles, MaxRaceBatch)

\* the scheduler thread and the request threads run unsynchronized
Next ==
    \/ StartJob(RaceLists)
    \/ TriggerCollection(RaceLists)
    \/ ForceRefresh(RaceLists)
    \/ \E p \in Runners : CheckUrl(p)
    \/ \E p \in Runners : CheckHash(p)
    \/ \E p \in Runners : VerifyAndInsert(p)
    \/ \E p \in Runners : AddStats(p)
    \/ \E p \in Runners : Finish(p)
    \/ \E d \in PruneDays : Prune(d)
    \/ Tick

Spec == Init /\ [][Next]_vars

SerialArticles == {"A", "Mirror", "SameUrl", "Throws"}

SerialLists == ListsOf(SerialArticles, MaxBatch)

\* collection runs that never overlap: a run starts when no other is under
\* way, and nothing is pruned
NextSerial ==
    \/ AllIdle /\ StartJob(SerialLists)
    \/ AllIdle /\ TriggerCollection(SerialLists)
    \/ AllIdle /\ ForceRefresh(SerialLists)
    \/ \E p \in Runners : CheckUrl(p)
    \/ \E p \in Runners : CheckHash(p)
    \/ \E p \in Runners : VerifyAndInsert(p)
    \/ \E p \in Runners : AddStats(p)
    \/ \E p \in Runners : Finish(p)

SpecSerial == Init /\ [][NextSerial]_vars

FixtureLists == ListsOf(Articles, MaxFixtureBatch)

\* the adapters answer every call with one fixed list
InitFixture ==
    \E ks \in SomeKeyConfigs : \E all \in FixtureLists[ks] :
        InitWith(ks, [live |-> FALSE, all |-> all], NoInput)

SpecFixture == InitFixture /\ [][NextSerial]_vars

\* is_url_exists raises (the database is locked or gone): the except at
\* line 394 takes it for an error of the article
UrlCheckFails(p) ==
    LET r == run[p] IN
    /\ r.pc = "loop"
    /\ r.idx <= Len(Unique(r))
    /\ ~Malformed(Current(r))
    /\ run' = [run EXCEPT ![p] =
          [r EXCEPT !.idx = r.idx + 1, !.fate[RawIdx(r)] = "store_error"]]
    /\ UNCHANGED <<store, nextId, stats, runs, Others>>

\* is_content_hash_exists fails: an OperationalError of the query is
\* swallowed by the store and answered "no such fingerprint", an error of
\* connect is caught at line 394
HashCheckFails(p) ==
    LET r == run[p] IN
    /\ r.pc = "hash"
    /\ \E swallowed \in BOOLEAN :
          run' = [run EXCEPT ![p] =
              IF swallowed
              THEN [r EXCEPT !.pc = "insert"]
              ELSE [r EXCEPT !.pc = "loop", !.idx = r.idx + 1,
                             !.fate[RawIdx(r)] = "store_error"]]
    /\ UNCHANGED <<store, nextId, stats, runs, Others>>

\* add_auto_collected_news raises an error that is not IntegrityError: no
\* row, and the except at line 394 catches it
InsertFails(p) ==
    LET r == run[p] IN
    /\ r.pc = "insert"
    /\ ~VerifyArticle(Current(r), FALSE).raised
    /\ run' = [run EXCEPT ![p] =
          [r EXCEPT !.pc = "loop", !.idx = r.idx + 1,
                    !.fate[RawIdx(r)] = "store_error"]]
    /\ UNCHANGED <<store, nextId, stats, runs, Others>>

\* add_collection_stats raises: it is outside the try of the loop, so the
\* error leaves process_and_store and collect_daily_news
StatsFails(p) ==
    LET r == run[p] IN
    /\ r.pc = "loop"
    /\ r.idx > Len(Unique(r))
    /\ run' = [run EXCEPT ![p] = [r EXCEPT !.pc = "failed"]]
    /\ UNCHANGED <<store, nextId, stats, runs, Others>>

\* job() logs the failure; the handler answers 500
Failed(p) ==
    /\ run[p].pc = "failed"
    /\ run' = [run EXCEPT ![p] = IdleRun]
    /\ UNCHANGED <<store, nextId, stats, runs, Others>>

FaultLists == ListsOf(RaceArticles, MaxBatch)

\* serial runs against a store whose operations can fail
NextFault ==
    \/ AllIdle /\ StartJob(FaultLists)
    \/ AllIdle /\ TriggerCollection(FaultLists)
    \/ AllIdle /\ ForceRefresh(FaultLists)
    \/ \E p \in Runners : CheckUrl(p)
    \/ \E p \in Runners : CheckHash(p)
    \/ \E p \in Runners : VerifyAndInsert(p)
    \/ \E p \in Runners : AddStats(p)
    \/ \E p \in Runners : Finish(p)
    \/ \E p \in Runners : UrlCheckFails(p)
    \/ \E p \in Runners : HashCheckFails(p)
    \/ \E p \in Runners : InsertFails(p)
    \/ \E p \in Runners : StatsFails(p)
    \/ \E p \in Runners : Failed(p)

SpecFault == Init /\ [][NextFault]_vars

(***************************************************************************)
(* The Verifier on its own: one call for a classifier output and two       *)
(* publishers, the second at least as trusted as the first.                *)
(***************************************************************************)
\* one publisher for every trust score of the two tables, and one that is
\* in neither table
Publishers ==
    {"The Hindu", "PTI", "Economic Times", "ANI", "India Today", "News18",
     "The Wire", "Unknown", "Social Media", "[Removed]", "Blog"}

\* predict(): 1 is real, 0 is fake
Labels == {0, 1}

\* the combined score is within a hundredth of one of the two thresholds
NearThreshold(c) ==
    \E n \in Publishers :
        LET d == Combined(c, SourceTrust(n))
        IN  (d > 59990 /\ d < 60010) \/ (d > 84990 /\ d < 85010)

\* round(max(predict_proba) * 100, 2) of a two-class classifier
ConfValues == {c \in 5000..10000 : c % 100 <= MaxCents \/ NearThreshold(c)}

AllKeys == [gnews |-> TRUE, newsdata |-> TRUE, newsapi |-> TRUE]

InitVerify ==
    \E l \in Labels, c \in ConfValues, lo \in Publishers, hi \in Publishers :
        /\ SourceTrust(lo) <= SourceTrust(hi)
        /\ InitWith(AllKeys, NoFixture, [label |-> l, conf |-> c, lo |-> lo, hi |-> hi])

\* verify_article for an article of publisher name that reaches the
\* classification stage with the classifier output of vin
Verdict(name, tieUp) ==
    LET v == VerifyArticle(Art(TitleX, "u1", Pub1, name, FALSE, "GENERAL",
                               Ml(vin.label, vin.conf)), tieUp)
    IN  [result |-> v.result, confidence |-> v.confidence]

Verify ==
    /\ ~vout.done
    /\ \E t1 \in BOOLEAN, t2 \in BOOLEAN :
          vout' = [done |-> TRUE, lo |-> Verdict(vin.lo, t1), hi |-> Verdict(vin.hi, t2)]
    /\ UNCHANGED <<keys, fixture, store, nextId, stats, run, runs, vin>>

NextVerify == Verify

SpecVerify == InitVerify /\ [][NextVerify]_vars

(***************************************************************************)
(* The collector under every configuration of keys, with what the          *)
(* providers have on offer on record.                                      *)
(***************************************************************************)
Adapters == {"gnews", "newsdata", "newsapi"}

\* the adapters collect_daily_news calls (lines 418, 433, 444)
Requested(ks) == {x \in Adapters : ks[x]}

KeyArticles == {"A", "SameUrl", "NoUrl"}

\* what each provider would answer in this run
Provided == FeedsOf(KeyArticles, MaxBatch, AllKeys)

NoFeed == [gnews |-> <<>>, newsdata |-> <<>>, newsapi |-> <<>>, requested |-> {}]

InitKeys == \E ks \in KeyConfigs : InitWith(ks, NoFixture, NoFeed)

\* collect_daily_news on thread p when the providers have f on offer
CollectFrom(p, f) ==
    /\ runs < MaxKeyRuns
    /\ run' = [run EXCEPT ![p] = Collected(AllArticles(keys, f))]
    /\ runs' = runs + 1
    /\ vin' = [gnews |-> f.gnews, newsdata |-> f.newsdata, newsapi |-> f.newsapi,
               requested |-> Requested(keys)]
    /\ UNCHANGED <<store, nextId, stats, keys, fixture, vout>>

\* job() of the scheduler
JobFed ==
    /\ AllIdle
    /\ \E f \in Provided : CollectFrom("scheduler", f)

\* trigger_collection
TriggerFed ==
    /\ AllIdle
    /\ IF ~keys.newsapi
       THEN /\ run' = [run EXCEPT !["web"] = [IdleRun EXCEPT !.pc = "refused"]]
            /\ UNCHANGED <<store, nextId, stats, runs, Others>>
       ELSE \E f \in Provided : CollectFrom("web", f)

\* force_refresh
ForceFed ==
    /\ AllIdle
    /\ \E f \in Provided : CollectFrom("web", f)

NextKeys ==
    \/ JobFed
    \/ TriggerFed
    \/ ForceFed
    \/ \E p \in Runners : CheckUrl(p)
    \/ \E p \in Runners : CheckHash(p)
    \/ \E p \in Runners : VerifyAndInsert(p)
    \/ \E p \in Runners : AddStats(p)
    \/ \E p \in Runners : Finish(p)

SpecKeys == InitKeys /\ [][NextKeys]_vars

(***************************************************************************)
(* The Source Adapters on their own: one call of each for one outcome of   *)
(* the HTTP request (and, for NewsAPI, of the request to /everything).     *)
(***************************************************************************)
Statuses == {200, 401, 403, 422, 426, 429, 500}

\* what r.json() makes of the body: it raises, it gives a value that is
\* not an object, an object that reports an error, or the provider's
\* success payload with its list of articles
Shapes == {"unparsable", "not_object", "error", "success"}

PayloadArticles == {"A", "NoTitle"}

Bodies ==
    {[shape |-> s, articles |-> <<>>] : s \in Shapes \ {"success"}} \cup
    {[shape |-> "success", articles |-> l] : l \in SeqsUpTo(PayloadArticles, MaxPayload)}

\* requests.get raises (no network, timeout), or answers
Responses ==
    {[exc |-> TRUE, status |-> 0, body |-> [shape |-> "error", articles |-> <<>>]]} \cup
    {[exc |-> FALSE, status |-> s, body |-> b] : s \in Statuses, b \in Bodies}

Returned(list) == [raised |-> FALSE, list |-> list]

Thrown == [raised |-> TRUE, list |-> <<>>]

\* the comprehension "for a in raw if a.get('title')"
WithTitle(l) == SelectSeq(l, LAMBDA n : ArticleNamed[n].title # <<>>)

\* r.json() and the first .get on its value
Parsed(body) == body.shape \notin {"unparsable", "not_object"}

\* fetch_gnews, the statements inside its try (lines 98-112)
GnewsTry(resp) ==
    IF resp.exc THEN Thrown
    ELSE IF resp.status = 200
    THEN IF ~Parsed(resp.body) THEN Thrown
         ELSE IF resp.body.shape = "success"
         THEN Returned(WithTitle(resp.body.articles))
         ELSE Returned(<<>>)
    ELSE Returned(<<>>)

\* fetch_gnews without its except clause
FetchGnewsNoCatch(key, resp) ==
    IF ~key THEN Returned(<<>>) ELSE GnewsTry(resp)

FetchGnews(key, resp) ==
    IF ~key THEN Returned(<<>>)
    ELSE IF GnewsTry(resp).raised THEN Returned(<<>>) ELSE GnewsTry(resp)

\* fetch_newsdata, the statements inside its try (lines 150-168)
NewsdataTry(resp) ==
    IF resp.exc THEN Thrown
    ELSE IF resp.status = 200
    THEN IF ~Parsed(resp.body) THEN Thrown
         ELSE IF resp.body.shape = "success"
         THEN Returned(WithTitle(resp.body.articles))
         ELSE Returned(<<>>)
    ELSE Returned(<<>>)

FetchNewsdata(key, resp) ==
    IF ~key THEN Returned(<<>>)
    ELSE IF NewsdataTry(resp).raised THEN Returned(<<>>) ELSE NewsdataTry(resp)

\* _newsapi_everything, the statements inside its try (lines 232-246)
EverythingTry(resp) ==
    IF resp.exc THEN Thrown
    ELSE IF resp.status = 200
    THEN IF ~Parsed(resp.body) THEN Thrown
         ELSE IF resp.body.shape = "success"
         THEN Returned(resp.body.articles)
         ELSE Returned(<<>>)
    ELSE Returned(<<>>)

NewsapiEverything(resp) ==
    IF EverythingTry(resp).raised THEN Returned(<<>>) ELSE EverythingTry(resp)

\* a fetch_newsapi that asks /everything on 401 and 426 only
FallsBackOnPlanOnly(resp) == ~resp.exc /\ resp.status \in {401, 426}

\* fetch_newsapi calls _newsapi_everything on every status but 200 and 429
FallsBack(resp) == ~resp.exc /\ resp.status \notin {200, 429}

\* fetch_newsapi, the statements inside its try (lines 203-219); second is
\* the outcome of the request to /everything, if it is made
NewsapiTry(resp, second) ==
    IF resp.exc THEN Thrown
    ELSE IF resp.status = 200
    THEN IF ~Parsed(resp.body) THEN Thrown
         ELSE IF resp.body.shape = "success"
         THEN Returned(resp.body.articles)
         ELSE Returned(<<>>)
    ELSE IF FallsBack(resp) THEN NewsapiEverything(second)
    ELSE Returned(<<>>)

FetchNewsapi(key, resp, second) ==
    IF ~key THEN Returned(<<>>)
    ELSE IF NewsapiTry(resp, second).raised THEN Returned(<<>>)
    ELSE NewsapiTry(resp, second)

InitAdapters ==
    \E k \in BOOLEAN, first \in Responses, second \in Responses :
        InitWith(AllKeys, NoFixture, [key |-> k, first |-> first, second |-> second])

\* each adapter is called once; the first outcome is that of its request
FetchAll ==
    /\ ~vout.done
    /\ vout' = [done |-> TRUE,
                gnews |-> FetchGnews(vin.key, vin.first),
                newsdata |-> FetchNewsdata(vin.key, vin.first),
                newsapi |-> FetchNewsapi(vin.key, vin.first, vin.second),
                alternate |-> vin.key /\ FallsBack(vin.first)]
    /\ UNCHANGED <<keys, fixture, store, nextId, stats, run, runs, vin>>

NextAdapters == FetchAll

SpecAdapters == InitAdapters /\ [][NextAdapters]_vars

(***************************************************************************)
(* The scheduler thread: the run at startup, then run_pending once a       *)
(* minute, which calls the jobs that are due one after the other.          *)
(***************************************************************************)
\* the job registered every 3 hours and one registered at a time of day
\* (lines 481-483)
Triggers == {"every3h", "daily"}

\* at: where the thread of schedule_news_collection is; due: the triggers
\* whose time has come and whose job has not been called since
AtStartup == [at |-> "startup", due |-> {}]

InitSched == \E ks \in SomeKeyConfigs : InitWith(ks, NoFixture, AtStartup)

\* the thread job() runs on: it is called, not spawned (lines 487, 490)
JobThreadSpawned(j) == IF j = "daily" THEN "web" ELSE "scheduler"

JobThread(j) == "scheduler"

\* line 487: job() before the loop
Startup ==
    /\ vin.at = "startup"
    /\ run["scheduler"].pc = "idle"
    /\ runs < MaxSchedRuns
    /\ \E all \in RaceLists[keys] :
          run' = [run EXCEPT !["scheduler"] = Collected(all)]
    /\ runs' = runs + 1
    /\ vin' = [vin EXCEPT !.at = "loop"]
    /\ UNCHANGED <<store, nextId, stats, keys, fixture, vout>>

\* the time of a trigger comes, whatever the thread is doing; a trigger
\* that is due already stays due once
BecomesDue(j) ==
    /\ j \notin vin.due
    /\ vin' = [vin EXCEPT !.due = vin.due \cup {j}]
    /\ UNCHANGED <<store, nextId, stats, keys, fixture, vout, run, runs>>

\* lines 489-491: the thread is in the loop and not inside job();
\* run_pending calls the job of a due trigger
RunPending(j) ==
    /\ vin.at = "loop"
    /\ run["scheduler"].pc = "idle"
    /\ run[JobThread(j)].pc = "idle"
    /\ j \in vin.due
    /\ runs < MaxSchedRuns
    /\ \E all \in RaceLists[keys] :
          run' = [run EXCEPT ![JobThread(j)] = Collected(all)]
    /\ runs' = runs + 1
    /\ vin' = [vin EXCEPT !.due = vin.due \ {j}]
    /\ UNCHANGED <<store, nextId, stats, keys, fixture, vout>>

NextSched ==
    \/ Startup
    \/ \E j \in Triggers : BecomesDue(j)
    \/ \E j \in Triggers : RunPending(j)
    \/ \E p \in Runners : CheckUrl(p)
    \/ \E p \in Runners : CheckHash(p)
    \/ \E p \in Runners : VerifyAndInsert(p)
    \/ \E p \in Runners : AddStats(p)
    \/ \E p \in Runners : Finish(p)

SpecSched == InitSched /\ [][NextSched]_vars

\* a job() without its try: the exception ends the thread
Uncaught(r) == [r EXCEPT !.pc = "dead"]

\* the except of job() (lines 478-479): the thread is back in the loop
CaughtInJob(r) == IdleRun

\* collect_daily_news raised inside job(): the failure is logged and job()
\* returns
JobFailed ==
    /\ run["scheduler"].pc = "failed"
    /\ run' = [run EXCEPT !["scheduler"] = CaughtInJob(run["scheduler"])]
    /\ vout' = [failed |-> TRUE]
    /\ UNCHANGED <<store, nextId, stats, keys, fixture, vin, runs>>

\* a step of the scheduler thread inside job()
JobStep ==
    \/ CheckUrl("scheduler")
    \/ CheckHash("scheduler")
    \/ VerifyAndInsert("scheduler")
    \/ AddStats("scheduler")
    \/ StatsFails("scheduler")
    \/ Finish("scheduler")
    \/ JobFailed

NextSchedLive ==
    \/ Startup
    \/ \E j \in Triggers : BecomesDue(j)
    \/ \E j \in Triggers : RunPending(j)
    \/ JobStep

\* the thread keeps running: what it can do next it does, and
\* run_pending, called once a minute, calls a job when one is due
SpecSchedLive ==
    /\ InitSched
    /\ [][NextSchedLive]_vars
    /\ WF_vars(Startup)
    /\ WF_vars(JobStep)
    /\ WF_vars(\E j \in Triggers : RunPending(j))

(***************************************************************************)
(* Retention: clear_old_news between serial runs, with its answer on       *)
(* record.                                                                 *)
(***************************************************************************)
PruneArticles == {"A", "Kb"}

PruneLists == ListsOf(PruneArticles, MaxRaceBatch)

\* clear_old_news: delete_old_news(days) and the count it returns
\* (cursor.rowcount)
ClearOldNews(days) ==
    /\ AllIdle
    /\ store' = DeleteOldNews(store, days)
    /\ vout' = [days |-> days,
                deleted |-> Cardinality(store \ DeleteOldNews(store, days))]
    /\ UNCHANGED <<keys, fixture, nextId, stats, run, runs, vin>>

NextPrune ==
    \/ AllIdle /\ StartJob(PruneLists)
    \/ AllIdle /\ TriggerCollection(PruneLists)
    \/ AllIdle /\ ForceRefresh(PruneLists)
    \/ \E p \in Runners : CheckUrl(p)
    \/ \E p \in Runners : CheckHash(p)
    \/ \E p \in Runners : VerifyAndInsert(p)
    \/ \E p \in Runners : AddStats(p)
    \/ \E p \in Runners : Finish(p)
    \/ \E d \in PruneDays : ClearOldNews(d)
    \/ Tick

SpecPrune == Init /\ [][NextPrune]_vars

\* the feeds carry one article that can be stored, again and again
RefetchArticles == {"A", "NoTitle"}

NextRefetch ==
    \/ AllIdle /\ StartJob(ListsOf(RefetchArticles, MaxRaceBatch))
    \/ AllIdle /\ TriggerCollection(ListsOf(RefetchArticles, MaxRaceBatch))
    \/ AllIdle /\ ForceRefresh(ListsOf(RefetchArticles, MaxRaceBatch))
    \/ \E p \in Runners : CheckUrl(p)
    \/ \E p \in Runners : CheckHash(p)
    \/ \E p \in Runners : VerifyAndInsert(p)
    \/ \E p \in Runners : AddStats(p)
    \/ \E p \in Runners : Finish(p)
    \/ \E d \in PruneDays : ClearOldNews(d)
    \/ Tick

SpecRefetch == Init /\ [][NextRefetch]_vars

(***************************************************************************)
(* Impact generation for one article: _gen_impacts, the generator and the  *)
(* ai_impacts column of the row.                                           *)
(***************************************************************************)
\* what the call of the backend comes to: it raises (network, quota,
\* refusal of the key), it answers without a content block, with text
\* that is not JSON, or with text json.loads parses
BackendOutcomes ==
    {"raises", "no_content", "not_json", "fenced_json",
     "array_of_four", "array_of_one", "object", "empty_array", "empty_object",
     "null", "zero"}

\* Python values, as far as their kind and their truth value go
Value(kind, truthy) == [kind |-> kind, truthy |-> truthy]

None == Value("None", FALSE)

\* _get_default_fake_impacts and _get_default_real_impacts
DefaultImpacts(isFake) ==
    Value(IF isFake THEN "default_fake" ELSE "default_real", TRUE)

\* json.loads(response_text)
JsonLoads(outcome) ==
    CASE outcome = "array_of_four" -> Value("array", TRUE)
      [] outcome = "array_of_one" -> Value("array", TRUE)
      [] outcome = "object" -> Value("object", TRUE)
      [] outcome = "empty_array" -> Value("array", FALSE)
      [] outcome = "empty_object" -> Value("object", FALSE)
      [] outcome = "null" -> None
      [] outcome = "zero" -> Value("number", FALSE)

\* the statements inside the try of generate_fake_news_impact and
\* generate_real_news_impact raise
BackendFails(outcome) ==
    outcome \in {"raises", "no_content", "not_json", "fenced_json"}

\* generate_fake_news_impact (is_fake) and generate_real_news_impact
GenerateImpact(useAi, isFake, outcome) ==
    IF ~useAi THEN DefaultImpacts(isFake)
    ELSE IF BackendFails(outcome) THEN DefaultImpacts(isFake)
    ELSE JsonLoads(outcome)

\* _gen_impacts; the generator raises nothing for its except to catch
GenImpacts(configured, useAi, isFake, outcome) ==
    IF ~configured THEN None ELSE GenerateImpact(useAi, isFake, outcome)

\* add_auto_collected_news, line 151: the value of the ai_impacts column
ImpactsJson(aiImpacts) == IF aiImpacts.truthy THEN aiImpacts.kind ELSE "NULL"

InitImpacts ==
    \E c \in BOOLEAN, u \in BOOLEAN, f \in BOOLEAN, o \in BackendOutcomes :
        InitWith(AllKeys, NoFixture,
                 [configured |-> c, useAi |-> u, isFake |-> f, backend |-> o])

\* lines 374-382 for one article that is stored
StoreWithImpacts ==
    /\ ~vout.done
    /\ vout' = [done |-> TRUE,
                impacts |-> GenImpacts(vin.configured, vin.useAi, vin.isFake, vin.backend),
                column |-> ImpactsJson(GenImpacts(vin.configured, vin.useAi,
                                                  vin.isFake, vin.backend))]
    /\ UNCHANGED <<keys, fixture, store, nextId, stats, run, runs, vin>>

NextImpacts == StoreWithImpacts

SpecImpacts == InitImpacts /\ [][NextImpacts]_vars

(***************************************************************************)
(* The stages of the Verifier: one call for one article, whatever its      *)
(* title, its text, the answer of the knowledge base and of the            *)
(* classifier.                                                             *)
(***************************************************************************)
\* words of the text that one of the historical patterns matches (a year,
\* a verb of the third pattern, a word of the fifth), words among the
\* policy keywords, and a word of neither kind
HistoricalWords == {"1947", "founded"}
PolicyWords == {"budget"}
Words == HistoricalWords \cup PolicyWords \cup {"cricket"}

\* detect_claim_type on a text with the words ws
DetectClaimType(ws) ==
    IF ws = {} THEN "GENERAL"
    ELSE IF ws \cap HistoricalWords # {} THEN "HISTORICAL"
    ELSE IF ws \cap PolicyWords # {} THEN "POLICY"
    ELSE "GENERAL"

StageTitles == {<<>>, RemovedTitle, TitleX}

StagePublishers == {"The Hindu", "Unknown", "Blog"}

StageMl == {MlThrows} \cup {Ml(l, c) : l \in Labels, c \in {5000, 9900}}

InitStages ==
    \E t \in StageTitles, n \in StagePublishers, kb \in BOOLEAN,
       ws \in SUBSET Words, ml \in StageMl :
        InitWith(AllKeys, NoFixture,
                 [words |-> ws,
                  article |-> Art(t, "u1", Pub1, n, kb, DetectClaimType(ws), ml)])

\* one call of verify_article
VerifyOne ==
    /\ ~vout.done
    /\ \E tieUp \in BOOLEAN :
          vout' = [done |-> TRUE, v |-> VerifyArticle(vin.article, tieUp)]
    /\ UNCHANGED <<keys, fixture, store, nextId, stats, run, runs, vin>>

NextStages == VerifyOne

SpecStages == InitStages /\ [][NextStages]_vars

(***************************************************************************)
(* The content fingerprint on its own: _content_hash for two articles.     *)
(***************************************************************************)
\* an upper-case letter, a lower-case one, a blank and a punctuation mark
TitleChars == {"X", "x", " ", "!"}

HashTitles == SeqsUpTo(TitleChars, MaxTitle)

\* two times of one day, a time of the next day, and no publishedAt
HashPubs == {Pub1, Pub1Late, Pub2, <<>>}

InitHash ==
    \E t1 \in HashTitles, t2 \in HashTitles, p1 \in HashPubs, p2 \in HashPubs :
        InitWith(AllKeys, NoFixture, [t1 |-> t1, p1 |-> p1, t2 |-> t2, p2 |-> p2])

\* _content_hash of both articles
HashBoth ==
    /\ ~vout.done
    /\ vout' = [done |-> TRUE,
                h1 |-> ContentHash(vin.t1, vin.p1),
                h2 |-> ContentHash(vin.t2, vin.p2)]
    /\ UNCHANGED <<keys, fixture, store, nextId, stats, run, runs, vin>>

NextHash == HashBoth

SpecHash == InitHash /\ [][NextHash]_vars

(***************************************************************************)
(* Properties.                                                             *)
(***************************************************************************)
Count(f, S) == Cardinality({i \in DOMAIN f : f[i] \in S})

Fp(a) == ContentHash(a.title, a.publishedAt)

\* C1: after any interleaving of scheduled runs, manual triggers and prunes
\* the store holds at most one row per url (an insert for a url that is
\* present adds no row)
C1_UrlUnique ==
    \A r1 \in store, r2 \in store : r1.url = r2.url => r1 = r2

\* an insert was turned down: two runs passed the pre-check on one url
C1_Witness ==
    \E p \in Runners : \E i \in DOMAIN run[p].fate :
        /\ run[p].fate[i] = "dup_insert"
        /\ Cardinality(store) = 1

\* C2: with the adapters answering every call with the same list, a run
\* that follows another one stores nothing: its stored and fake counters
\* stay 0, no article of it ends up stored, and every article of it whose
\* url or fingerprint the store holds is counted as a duplicate
C2_SecondRunStoresNothing ==
    \A p \in Runners :
        LET r == run[p] IN
        (runs >= 2 /\ r.pc # "idle") =>
            /\ r.stored = 0
            /\ r.fake = 0
            /\ Count(r.fate, {"stored", "dup_insert"}) = 0
            /\ r.pc = "done" =>
                 \A i \in DOMAIN r.fate :
                    LET a == ArticleNamed[r.batch[i]] IN
                    (r.fate[i] \notin {"dropped", "malformed"}
                        /\ (IsUrlExists(store, a.url) \/ IsContentHashExists(store, Fp(a))))
                    => r.fate[i] = "dup_precheck"

\* the second run is over and has counted what the first one stored
C2_Witness ==
    \E p \in Runners :
        /\ runs = 2
        /\ run[p].pc = "done"
        /\ Len(run[p].batch) = 2
        /\ run[p].dupes = 2
        /\ Cardinality(store) = 1

\* two articles of one raw list with different urls and one fingerprint
\* that both get to the duplicate detector
SameFpPair(b, i, j) ==
    /\ i < j
    /\ \E k \in 1..Len(KeptIndices(Recs(b))) : KeptIndices(Recs(b))[k] = i
    /\ \E k \in 1..Len(KeptIndices(Recs(b))) : KeptIndices(Recs(b))[k] = j
    /\ ArticleNamed[b[i]].url # ArticleNamed[b[j]].url
    /\ ~Malformed(ArticleNamed[b[i]])
    /\ ~Malformed(ArticleNamed[b[j]])
    /\ Fp(ArticleNamed[b[i]]) = Fp(ArticleNamed[b[j]])

FpUnique ==
    \A r1 \in store, r2 \in store : r1.content_hash = r2.content_hash => r1 = r2

Dup == {"dup_precheck", "dup_insert"}

C4_MutualExclusion ==
    ~(Running("scheduler") /\ Running("web"))

\* C5: when a run ends, every article of its raw list with a title other
\* than "[Removed]" and a url was stored, counted in duplicates, or skipped
\* as malformed
C5_StoredCountedOrSkipped ==
    \A p \in Runners :
        LET r == run[p] IN
        r.pc = "done" =>
           \A i \in DOMAIN r.fate :
              ~Malformed(ArticleNamed[r.batch[i]]) =>
                  r.fate[i] \in {"stored", "dup_precheck", "dup_insert", "malformed"}

\* C6: once every run that was started has returned, collection_stats has
\* one row for each of them
C6_OneRowPerRun ==
    (\A p \in Runners : ~Running(p)) => stats.count = runs

\* C7: the row a run appends has fetched = the length of the raw list and
\* duplicates = the articles removed as same-url repeats + those the
\* pre-check turned down + those the insert turned down
C7_StatsRow ==
    \A p \in Runners :
        LET r == run[p] IN
        (r.pc = "done" /\ r.batch # <<>>) =>
           /\ stats.last.fetched = Len(r.batch)
           /\ stats.last.duplicates =
                 Cardinality({i \in DOMAIN r.fate :
                                 r.fate[i] = "dropped" /\ ArticleNamed[r.batch[i]].url # ""})
                 + Count(r.fate, {"dup_precheck"}) + Count(r.fate, {"dup_insert"})

\* the verdict the classification stage is to give, with combined in
\* thousandths
StatedVerdict(label, conf, t) ==
    LET combined == conf * 7 + t * 300
    IN  IF combined < 60000 THEN "NEEDS FACT CHECKING"
        ELSE IF label = 1 THEN "REAL NEWS"
        ELSE IF t > 80 /\ combined < 85000 THEN "NEEDS FACT CHECKING"
        ELSE "FAKE NEWS"

\* the confidence is combined rounded to two decimals
StatedConfidence(conf, t, reported) ==
    LET d == reported * 10 - (conf * 7 + t * 300)
    IN  d >= -5 /\ d <= 5

\* C8: with combined = rawConfidence*0.7 + t*100*0.3 the verdict is needs
\* fact checking below 60, else real news for label real, else needs fact
\* checking for t > 0.8 and combined < 85, else fake news; the confidence
\* is combined rounded to two decimals; (80, 0.9) gives 83, which is needs
\* fact checking for label fake and real news for label real
C8_Verdict ==
    vout.done =>
        /\ vout.lo.result = StatedVerdict(vin.label, vin.conf, SourceTrust(vin.lo))
        /\ vout.hi.result = StatedVerdict(vin.label, vin.conf, SourceTrust(vin.hi))
        /\ StatedConfidence(vin.conf, SourceTrust(vin.lo), vout.lo.confidence)
        /\ StatedConfidence(vin.conf, SourceTrust(vin.hi), vout.hi.confidence)
        /\ (vin.conf = 8000 /\ vin.lo = "The Hindu") =>
              /\ vout.lo.confidence = 8300
              /\ vout.lo.result =
                    IF vin.label = 0 THEN "NEEDS FACT CHECKING" ELSE "REAL NEWS"

\* (fake, 80) at trust 0.9 was given 83 and needs fact checking
C8_Witness ==
    /\ vout.done
    /\ vin.label = 0
    /\ vin.conf = 8000
    /\ vin.lo = "The Hindu"
    /\ vout.lo = [result |-> "NEEDS FACT CHECKING", confidence |-> 8300]

\* C9: with the classifier output fixed, a real news verdict at one trust
\* is not a fake news verdict at a trust that is at least as high
C9_Monotone ==
    (vout.done /\ vout.lo.result = "REAL NEWS") => vout.hi.result # "FAKE NEWS"

\* real news at trust 0.3 stayed real news at trust 0.9
C9_Witness ==
    /\ vout.done
    /\ vin.lo = "Unknown"
    /\ vin.hi = "The Hindu"
    /\ vout.lo.result = "REAL NEWS"
    /\ vout.hi.result = "REAL NEWS"

\* the article gets to the classification stage with label fake, and
\* combined >= 60 and not (trust > 0.8 and combined < 85)
FakePath(a) ==
    /\ a.title # <<>>
    /\ a.title # RemovedTitle
    /\ ~a.kb
    /\ a.claim # "HISTORICAL"
    /\ ~a.ml.throws
    /\ a.ml.label = 0
    /\ a.ml.conf * 7 + SourceTrust(a.source) * 300 >= 60000
    /\ ~(SourceTrust(a.source) > 80 /\ a.ml.conf * 7 + SourceTrust(a.source) * 300 < 85000)

\* C10: the insert step of such an article whose url the store does not
\* hold adds one row with verdict fake news and adds one to the stored and
\* to the fake counter of the run; for publisher Unknown and classifier
\* output (fake, 90) the row has confidence 72.0, and a run of that article
\* alone returns stored = 1, fake = 1
C10_FakeStored ==
    [][\A p \in Runners :
          /\ (/\ run[p].pc = "insert"
              /\ run'[p].pc # "insert"
              /\ FakePath(Current(run[p]))
              /\ ~IsUrlExists(store, Current(run[p]).url))
             => /\ \E row \in store' \ store :
                      /\ row.url = Current(run[p]).url
                      /\ row.result = "FAKE NEWS"
                      /\ (Current(run[p]).source = "Unknown"
                            /\ Current(run[p]).ml.conf = 9000) => row.confidence = 7200
                /\ Cardinality(store') = Cardinality(store) + 1
                /\ run'[p].stored = run[p].stored + 1
                /\ run'[p].fake = run[p].fake + 1
          /\ (/\ run'[p].pc = "done"
              /\ run'[p].batch = <<"A">>
              /\ run'[p].fate = <<"stored">>)
             => (run'[p].stored = 1 /\ run'[p].fake = 1)]_vars

\* a run of the article of publisher Unknown alone returned (1, 1) and its
\* row says fake news, 72.0
C10_Witness ==
    \E p \in Runners :
        /\ run[p].pc = "done"
        /\ run[p].batch = <<"A">>
        /\ run[p].stored = 1
        /\ run[p].fake = 1
        /\ \E row \in store :
              row.url = "u1" /\ row.result = "FAKE NEWS" /\ row.confidence = 7200

\* no title, the title "[Removed]", or no url
NoTitleOrUrl(a) == a.title = <<>> \/ a.title = RemovedTitle \/ a.url = ""

\* C11: an article with no title, the title "[Removed]" or no url never
\* gets to the duplicate detector, the Verifier or the insert: no run is at
\* the fingerprint check or at the insert with it, no row comes from it, and
\* it is counted neither in stored nor in duplicates
C11_MalformedSkipped ==
    /\ \A row \in store :
          row.headline # <<>> /\ row.headline # RemovedTitle /\ row.url # ""
    /\ \A p \in Runners :
          LET r == run[p] IN
          /\ r.pc \in {"hash", "insert"} => ~NoTitleOrUrl(Current(r))
          /\ \A i \in DOMAIN r.fate :
                NoTitleOrUrl(ArticleNamed[r.batch[i]]) =>
                    r.fate[i] \in {"pending", "dropped", "malformed"}
          /\ r.stored = Count(r.fate, {"stored"})
          /\ r.dupes = Count(r.fate, Dup)

\* a run of a withdrawn article alone ended with nothing stored or counted
C11_Witness ==
    \E p \in Runners :
        /\ run[p].pc = "done"
        /\ run[p].batch = <<"Removed">>
        /\ run[p].fate = <<"malformed">>
        /\ run[p].stored = 0
        /\ run[p].dupes = 0
        /\ store = {}

\* C12: _is_duplicate is true exactly when the store has a row with the url
\* or a row with the fingerprint of the article: a run gets to the Verifier
\* with an article only when the store has neither, an article the
\* pre-check turned down has one of them in the store, is counted in
\* duplicates and not stored, and an article whose url the store holds
\* under another title is never stored
C12_IsDuplicate ==
    \A p \in Runners :
        LET r == run[p] IN
        /\ r.pc = "insert" =>
              /\ ~\E row \in store : row.url = Current(r).url
              /\ ~\E row \in store : row.content_hash = Fp(Current(r))
        /\ r.dupes = Count(r.fate, Dup)
        /\ r.stored = Count(r.fate, {"stored"})
        /\ \A i \in DOMAIN r.fate :
              LET a == ArticleNamed[r.batch[i]] IN
              /\ r.fate[i] = "dup_precheck" =>
                    \E row \in store : row.url = a.url \/ row.content_hash = Fp(a)
              /\ r.fate[i] = "stored" =>
                    \E row \in store : row.url = a.url /\ row.headline = a.title
              /\ (\E row \in store : row.url = a.url /\ row.headline # a.title) =>
                    r.fate[i] # "stored"

\* a later run that offered the stored url u1 under another title stored 0
C12_Witness ==
    \E p \in Runners :
        /\ run[p].pc = "done"
        /\ run[p].batch = <<"SameUrl">>
        /\ run[p].fate = <<"dup_precheck">>
        /\ run[p].stored = 0
        /\ run[p].dupes = 1
        /\ \E row \in store : row.url = "u1" /\ row.headline = TitleX

\* C13: when a run gets to the insert with an article whose url the store
\* holds by then (the pre-check had passed), the insert adds no row, the
\* run counts the article in duplicates and not in stored and goes on with
\* the next article; when the store does not hold the url, the insert adds
\* exactly one row and the run counts it in stored
C13_InsertBackstop ==
    [][\A p \in Runners :
          (/\ run[p].pc = "insert"
           /\ run'[p].pc # "insert"
           /\ ~VerifyArticle(Current(run[p]), TRUE).raised)
          => IF \E row \in store : row.url = Current(run[p]).url
             THEN /\ store' = store
                  /\ run'[p].dupes = run[p].dupes + 1
                  /\ run'[p].stored = run[p].stored
                  /\ run'[p].fake = run[p].fake
                  /\ run'[p].pc = "loop"
                  /\ run'[p].idx = run[p].idx + 1
                  /\ run'[p].fate[RawIdx(run[p])] = "dup_insert"
             ELSE /\ Cardinality(store') = Cardinality(store) + 1
                  /\ run'[p].stored = run[p].stored + 1
                  /\ run'[p].dupes = run[p].dupes
                  /\ run'[p].pc = "loop"]_vars

\* two runs raced on one url: one stored it, the other counted a duplicate,
\* and both went on to their end
C13_Witness ==
    /\ Cardinality(store) = 1
    /\ \E p \in Runners, q \in Runners :
          /\ run[p].pc = "done"
          /\ run[q].pc = "done"
          /\ run[p].batch = run[q].batch
          /\ run[p].fate = <<"stored">>
          /\ run[q].fate = <<"dup_insert">>
          /\ run[q].stored = 0
          /\ run[q].dupes = 1

\* the table as it was when the run of r began: runs do not overlap and
\* nothing is pruned, so it is the rows the run did not store
StartStore(r) ==
    {row \in store :
        ~\E i \in DOMAIN r.fate :
            r.fate[i] = "stored" /\ ArticleNamed[r.batch[i]].url = row.url}

\* the positions of the raw list b that get to the per-article loop (the
\* list unique), but position k, in order
AllBut(b, k) == SelectSeq(KeptIndices(Recs(b)), LAMBDA i : i # k)

Pick(s, I) == [j \in 1..Len(I) |-> s[I[j]]]

\* what a run shows of an article: a row and a count in stored, a count in
\* duplicates, or neither
Outcome(f) ==
    IF f = "stored" THEN "stored"
    ELSE IF f \in {"dup_precheck", "dup_insert"} THEN "duplicate"
    ELSE "skipped"

Outcomes(fs) == [j \in DOMAIN fs |-> Outcome(fs[j])]

\* the classifier throws on the article, and the article gets to it
Throwing(a) ==
    /\ a.title # <<>> /\ a.title # RemovedTitle /\ a.url # ""
    /\ ~a.kb /\ a.claim # "HISTORICAL" /\ a.ml.throws

\* the run recorded its row and is back with its counters
Recorded(r) ==
    stats.last = [fetched |-> Len(r.batch), stored |-> r.stored,
                  duplicates |-> r.dupes, fake |-> r.fake]

C15_StoreErrorAbandons ==
    \A p \in Runners :
        (\E i \in DOMAIN run[p].fate : run[p].fate[i] = "store_error")
            => run[p].pc # "done"

\* a collection starts on thread p in this step
Starts(p) == run[p].pc = "idle" /\ run'[p].pc \notin {"idle", "refused"}

\* C16: when every adapter returns an empty list (no key, or nothing on
\* offer), the run ends at once with (0, 0), without an error, and the
\* table of collected records is as it was
C16_EmptyReturnsZero ==
    [][\A p \in Runners :
          (/\ Starts(p)
           /\ \A x \in Adapters : keys[x] => vin'[x] = <<>>)
          => /\ run'[p].pc = "done"
             /\ run'[p].stored = 0
             /\ run'[p].fake = 0
             /\ store' = store]_vars

\* a run with the GNews key alone has returned (0, 0): GNews had nothing
\* on offer, and NewsData.io, without key, had an article
C16_Witness ==
    /\ run["scheduler"].pc = "done"
    /\ run["scheduler"].batch = <<>>
    /\ runs = 1
    /\ Requested(keys) = {"gnews"}
    /\ vin.gnews = <<>>
    /\ vin.newsdata # <<>>

\* the part of the raw list an adapter with n articles on offer fills
Share(x, n) == IF keys[x] THEN n ELSE 0

\* C18: under every configuration of keys a run goes through without an
\* error; an adapter without key is not called and adds nothing to the raw
\* list, and the raw list holds the articles of each adapter that has a
\* key, in the order GNews, NewsData.io, NewsAPI, each of which has been
\* dealt with when the run returns
C18_AnySubsetOfKeys ==
    \A p \in Runners :
        LET r == run[p]
            g == Share("gnews", Len(vin.gnews))
            d == Share("newsdata", Len(vin.newsdata))
            n == Share("newsapi", Len(vin.newsapi))
        IN  r.pc \notin {"idle", "refused"} =>
              /\ r.pc \in {"loop", "hash", "insert", "done"}
              /\ \A x \in Adapters : x \in vin.requested <=> keys[x]
              /\ Len(r.batch) = g + d + n
              /\ keys.gnews => SubSeq(r.batch, 1, g) = vin.gnews
              /\ keys.newsdata => SubSeq(r.batch, g + 1, g + d) = vin.newsdata
              /\ keys.newsapi => SubSeq(r.batch, g + d + 1, g + d + n) = vin.newsapi
              /\ r.pc = "done" => \A i \in DOMAIN r.fate : r.fate[i] # "pending"

\* GNews has no key and had an article on offer; the run stored the one
\* article of NewsAPI
C18_Witness ==
    /\ ~keys.gnews /\ ~keys.newsdata /\ keys.newsapi
    /\ vin.gnews = <<"A">>
    /\ vin.newsapi = <<"SameUrl">>
    /\ \E p \in Runners :
          /\ run[p].pc = "done"
          /\ run[p].batch = <<"SameUrl">>
          /\ run[p].fate = <<"stored">>

\* C19: the manual trigger answers with the no-credentials error exactly
\* when no adapter has a key, and runs the collection otherwise
C19_RefusedIffNoKey ==
    /\ run["web"].pc = "refused" => \A x \in Adapters : ~keys[x]
    /\ run["web"].pc \notin {"idle", "refused"} => \E x \in Adapters : keys[x]

\* the response is the provider's success payload
Success(resp) == ~resp.exc /\ resp.status = 200 /\ resp.body.shape = "success"

\* C17: whatever the outcome of the HTTP request, each adapter returns a
\* list and raises nothing, and the list is empty unless a response was a
\* success payload (for fetch_newsapi that of /everything, when it is asked)
C17_AdaptersNeverRaise ==
    vout.done =>
        /\ \A x \in Adapters : ~vout[x].raised
        /\ vout.gnews.list # <<>> => vin.key /\ Success(vin.first)
        /\ vout.newsdata.list # <<>> => vin.key /\ Success(vin.first)
        /\ vout.newsapi.list # <<>> =>
              /\ vin.key
              /\ \/ Success(vin.first)
                 \/ ~vin.first.exc /\ vin.first.status # 200 /\ Success(vin.second)

\* the request answered 200 with a body that is not JSON, and every
\* adapter returned the empty list
C17_Witness ==
    /\ vout.done
    /\ vin.key
    /\ vin.first.status = 200
    /\ vin.first.body.shape = "unparsable"
    /\ \A x \in Adapters : vout[x] = Returned(<<>>)

\* a run the scheduler started is in progress on thread p
InProgress(p) == run[p].pc # "idle"

\* C20: the job of a trigger that is due starts only when no run the
\* scheduler started is in progress, and at no time are two such runs in
\* progress
C20_SchedulerSerial ==
    [][/\ \A j \in vin.due \ vin'.due : \A p \in Runners : ~InProgress(p)
       /\ Cardinality({p \in Runners : InProgress(p)'}) <= 1]_vars

\* the run at startup has recorded its row and returned; the job of one
\* trigger is running on the scheduler thread while the other trigger is
\* due and waits
C20_Witness ==
    /\ runs = 2
    /\ vin.at = "loop"
    /\ Cardinality(vin.due) = 1
    /\ Running("scheduler")
    /\ stats.count = 1

\* clear_old_news has answered
Answered == "deleted" \in DOMAIN vout

\* C21: a call of clear_old_news for N days deletes the rows collected more
\* than N days before the call and no other row, leaves the statistics
\* rows as they are, and answers with the number of rows it deleted
C21_PruneExact ==
    [][(vout' # vout \/ Cardinality(store') < Cardinality(store)) =>
          /\ store' = {r \in store : r.age <= vout'.days}
          /\ stats' = stats
          /\ vout'.deleted = Cardinality({r \in store : r.age > vout'.days})]_vars

\* a call for one day has deleted one row and left a row that is exactly
\* one day old, with a statistics row on record
C21_Witness ==
    /\ Answered
    /\ vout.days = 1
    /\ vout.deleted = 1
    /\ \E r \in store : r.age = 1
    /\ stats.count >= 1

\* C22: with an impact generator configured, a missing credential or a
\* failure of the backend gives the defaults of the verdict kind, and the
\* row stored has a non-empty impacts value
C22_ImpactsNonEmpty ==
    (vout.done /\ vin.configured) =>
        /\ (~vin.useAi \/ BackendFails(vin.backend)) =>
              vout.impacts.kind = (IF vin.isFake THEN "default_fake" ELSE "default_real")
        /\ vout.column # "NULL"

\* two rows of the table with one content fingerprint and two urls
FpPair(st) ==
    \E r1 \in st, r2 \in st : r1.url # r2.url /\ r1.content_hash = r2.content_hash

\* C23: the fingerprint is looked at in the pre-check only: a thread that
\* has passed the pre-check and gets to its insert after another thread has
\* stored an article of the same fingerprint and another url stores its
\* article all the same, and the table then holds two rows with that
\* fingerprint
C23_FingerprintRace ==
    [][\A p \in Runners :
          (/\ run[p].pc = "insert"
           /\ run'[p].pc # "insert"
           /\ ~VerifyArticle(Current(run[p]), TRUE).raised
           /\ ~\E row \in store : row.url = Current(run[p]).url
           /\ \E row \in store : row.content_hash = Fp(Current(run[p])))
          => /\ run'[p].fate[RawIdx(run[p])] = "stored"
             /\ \E row \in store' \ store :
                   /\ row.url = Current(run[p]).url
                   /\ row.content_hash = Fp(Current(run[p]))
             /\ FpPair(store')]_vars

\* the scheduled run and the manual one each stored its article, A under
\* u1 and its mirror under u2, and the table holds both rows
C23_Witness ==
    /\ \E p \in Runners, q \in Runners :
          /\ p # q
          /\ run[p].batch = <<"A">> /\ run[p].fate = <<"stored">>
          /\ run[q].batch = <<"Mirror">> /\ run[q].fate = <<"stored">>
    /\ Cardinality(store) = 2
    /\ FpPair(store)

HasTitle(a) == a.title # <<>> /\ a.title # RemovedTitle

\* C24: the stages come in the order title, knowledge base, claim type,
\* classifier, and the first that matches decides: without a title the
\* article needs fact checking; otherwise a match of the knowledge base
\* or a historical text gives verified fact at 95 whatever the classifier
\* and the publisher are, and the classifier is not called (an input it
\* would throw on raises nothing); only otherwise is the classifier called
C24_FirstStageDecides ==
    vout.done =>
        LET a == vin.article
            historical == vin.words \cap HistoricalWords # {}
        IN  /\ ~HasTitle(a) =>
                  vout.v = [raised |-> FALSE, result |-> "NEEDS FACT CHECKING",
                            confidence |-> 0]
            /\ (HasTitle(a) /\ (a.kb \/ historical)) =>
                  vout.v = [raised |-> FALSE, result |-> "VERIFIED FACT",
                            confidence |-> 9500]
            /\ (HasTitle(a) /\ ~a.kb /\ ~historical) =>
                  /\ vout.v.raised <=> a.ml.throws
                  /\ ~vout.v.raised =>
                        vout.v.result \in {"FAKE NEWS", "REAL NEWS", "NEEDS FACT CHECKING"}

\* a text with a year and a policy keyword, from an untrusted publisher,
\* on which the classifier would throw, is a verified fact at 95
C24_Witness ==
    /\ vout.done
    /\ vin.words = {"1947", "budget"}
    /\ ~vin.article.kb
    /\ vin.article.source = "Blog"
    /\ vin.article.ml.throws
    /\ vout.v.result = "VERIFIED FACT"
    /\ vout.v.confidence = 9500

\* position i of the raw list b is the first with its url, which is not
\* empty
FirstOfUrl(b, i) ==
    /\ ArticleNamed[b[i]].url # ""
    /\ \A j \in 1..(i - 1) : ArticleNamed[b[j]].url # ArticleNamed[b[i]].url

AlternateList == IF Success(vin.second) THEN vin.second.body.articles ELSE <<>>

\* C26, as stated: the request to /everything is made exactly when the
\* first request was answered 401, 403 or 426
C26_AlternateOnAuthOnly ==
    vout.done =>
        (vout.alternate <=>
            (vin.key /\ ~vin.first.exc /\ vin.first.status \in {401, 403, 426}))

\* C26, amended: fetch_newsapi makes the request to /everything exactly
\* when the first request was answered with a status other than 200 and
\* 429, and then returns what /everything gives; on 429, on an exception
\* of the request and on a 200 that is not a success payload it returns
\* the empty list without a second request; fetch_gnews and
\* fetch_newsdata have no second request and return the empty list on
\* every status but 200
C26_AlternateOnOtherStatus ==
    vout.done =>
        /\ vout.alternate <=>
              (vin.key /\ ~vin.first.exc /\ vin.first.status \notin {200, 429})
        /\ vout.alternate => vout.newsapi.list = AlternateList
        /\ (~vout.alternate /\ ~Success(vin.first)) => vout.newsapi.list = <<>>
        /\ ~Success(vin.first) =>
              vout.gnews.list = <<>> /\ vout.newsdata.list = <<>>

\* the first request was answered 500 and /everything answered with an
\* article, which fetch_newsapi returned
C26_Witness ==
    /\ vout.done
    /\ vin.first.status = 500
    /\ vout.alternate
    /\ vout.newsapi.list = <<"A">>
    /\ vout.gnews.list = <<>>

\* the scheduler thread is in its loop, between two calls of run_pending
Polling == vin.at = "loop" /\ run["scheduler"].pc = "idle"

\* C27: a run of the scheduler that raises, the one at startup too, is
\* followed by the thread polling again, and the job of a trigger that is
\* due is called in the end (as long as the model has runs left)
C27_SchedulerKeepsRunning ==
    /\ (run["scheduler"].pc = "failed") ~> Polling
    /\ \A j \in Triggers :
          (j \in vin.due) ~> (j \notin vin.due \/ runs = MaxSchedRuns)

\* a run has failed and been logged, and the job of a trigger that came
\* due is running
C27_Witness ==
    /\ "failed" \in DOMAIN vout
    /\ runs = 2
    /\ stats.count = 0
    /\ Running("scheduler")
    /\ vin.at = "loop"

\* the title in lower case, without the characters that are neither
\* alphanumeric nor blank, and without the blanks at its ends
Lowered(s) == [i \in DOMAIN s |-> Lower(s[i])]

Filtered(s) == SelectSeq(s, LAMBDA c : IsAlnum(c) \/ IsSpace(c))

Trimmed(s) ==
    LET solid == {i \in DOMAIN s : ~IsSpace(s[i])}
    IN  IF solid = {} THEN <<>>
        ELSE SubSeq(s, CHOOSE i \in solid : \A j \in solid : i <= j,
                       CHOOSE i \in solid : \A j \in solid : i >= j)

Normalized(title) == Trimmed(Filtered(Lowered(title)))

\* the first 10 characters of publishedAt
DateOf(pub) == [i \in {j \in DOMAIN pub : j <= 10} |-> pub[i]]

\* C28: two articles have the same fingerprint exactly when their
\* normalized titles are equal and the date parts of their publishedAt are
\* equal; the same title on two dates gives two fingerprints
C28_FingerprintEquivalence ==
    vout.done =>
        (vout.h1 = vout.h2 <=>
            (/\ Normalized(vin.t1) = Normalized(vin.t2)
             /\ DateOf(vin.p1) = DateOf(vin.p2)))

\* "X!" in the morning and " x" later the same day have one fingerprint
C28_Witness ==
    /\ vout.done
    /\ vin.t1 = <<"X", "!">>
    /\ vin.t2 = <<" ", "x">>
    /\ vin.p1 = Pub1
    /\ vin.p2 = Pub1Late
    /\ vout.h1 = vout.h2

\* the urls of the raw list b
UrlsOf(b) == {ArticleNamed[b[i]].url : i \in DOMAIN b}

\* the counters of a run that has a raw list
CountersConsistent(r) ==
    /\ 0 <= r.fake
    /\ r.fake <= r.stored
    /\ r.stored + r.dupes <= Cardinality(UrlsOf(r.batch))
    /\ Cardinality(UrlsOf(r.batch)) <= Len(r.batch)
    /\ r.pc = "done" =>
          /\ stats.last.stored = r.stored
          /\ stats.last.fake = r.fake
          /\ stats.last.fetched = Len(r.batch)

\* C29: in a run with a raw list, 0 <= fake <= stored, stored + duplicates
\* <= number of distinct urls <= fetched, the pair returned is the stored
\* and fake of the row the run recorded, and with no other run or prune
\* at work the table grows by one row whenever stored grows by one
C29_CounterConsistency ==
    [][\A p \in Runners :
          /\ (run'[p].batch # <<>>) => CountersConsistent(run[p])'
          /\ Running(p) =>
                Cardinality(store') - Cardinality(store) = run'[p].stored - run[p].stored]_vars

\* a run fetched A and its mirror, stored A as fake, counted the mirror a
\* duplicate and recorded the row (2, 1, 1, 1)
C29_Witness ==
    /\ \E p \in Runners :
          /\ run[p].pc = "done"
          /\ run[p].batch = <<"A", "Mirror">>
          /\ run[p].stored = 1 /\ run[p].fake = 1 /\ run[p].dupes = 1
    /\ stats.last = [fetched |-> 2, stored |-> 1, duplicates |-> 1, fake |-> 1]
    /\ Cardinality(store) = 1

\* a row of the table st has the url or the fingerprint of the article a
Matches(st, a) ==
    \E row \in st :
        \/ row.url = a.url
        \/ /\ DateOf(row.published_at) = DateOf(a.publishedAt)
           /\ Normalized(row.headline) = Normalized(a.title)

\* C30: the duplicate checks know only the rows that are in the table: a
\* well-formed article the loop gets to is stored when no row of the table
\* has its url or its fingerprint, also when clear_old_news has deleted a
\* row of the same article before, and is a duplicate when there is such a
\* row
C30_PrunedRecordForgotten ==
    \A p \in Runners :
        run[p].pc = "done" =>
            \A k \in DOMAIN Unique(run[p]) :
                LET i == KeptIndices(Recs(run[p].batch))[k]
                    a == Unique(run[p])[k]
                IN  (~Malformed(a) /\ ~Throwing(a)) =>
                        /\ ~Matches(StartStore(run[p]), a) =>
                              /\ run[p].fate[i] = "stored"
                              /\ \E row \in store : row.url = a.url
                        /\ Matches(StartStore(run[p]), a) =>
                              run[p].fate[i] = "dup_precheck"

\* the first run stored A as row 1, clear_old_news deleted it, and the
\* second run fetched A again and stored it as row 2
C30_Witness ==
    /\ Answered
    /\ vout.deleted = 1
    /\ runs = 2
    /\ nextId = 3
    /\ \E p \in Runners :
          /\ run[p].pc = "done"
          /\ run[p].batch = <<"A">>
          /\ run[p].fate = <<"stored">>
    /\ \E row \in store :
          /\ store = {row}
          /\ row.id = 2
          /\ row.url = ArtA.url
          /\ row.headline = ArtA.title
          /\ row.published_at = ArtA.publishedAt

====
